---- MODULE Spec2Model ----
(***************************************************************************)
(* A model of graphcool/api: the type synthesis of types/types.js          *)
(* (createTypes and its three passes), the request-time resolvers it       *)
(* installs (root all<Entity>s query, one-to-many relation field) and the  *)
(* signinUser mutation.                                                    *)
(*                                                                         *)
(* JavaScript strings that the code concatenates, searches or splits       *)
(* (field names, argument names, orderBy values) are sequences of          *)
(* one-character strings. Strings that are only compared (type             *)
(* identifiers, model names) are TLA+ strings.                             *)
(***************************************************************************)
EXTENDS Integers, Sequences, FiniteSets, TLC

VARIABLES
  clientSchemas,   \* createTypes argument: the batch of entity schemas
  schemaType,      \* createTypes argument: "RELAY" or "SIMPLE"
  pc,              \* position inside createTypes
  idx,             \* index of the entity the current loop is at
  clientTypes,     \* const clientTypes = {} : modelName -> bundle
  enumTypes,       \* const enumTypes = {} : enum type name -> enum type
  nextInstance,    \* object identity: the number of enum types allocated so far
  build,           \* how many times createTypes has been called
  prevTypes,       \* what the previous createTypes call returned
  nodes,           \* the records the backend holds for the queried entity
  resolved,        \* the settled promise of the last resolver call
  rargs,           \* the arguments of the last resolver call
  users,           \* the User records the backend holds
  spc,             \* position inside signinUser's promise chain
  sargs,           \* the {email, password} input of the signin call
  suser,           \* the user the chain carries
  compareCalls,    \* calls of backend.compareHashAsync made by this signin call
  tokenCalls,      \* calls of backend.tokenForUser made by this signin call
  soutcome         \* the settled promise of the signin call

typeVars == <<clientSchemas, pc, idx, clientTypes, enumTypes, nextInstance, build, prevTypes>>
queryVars == <<nodes, resolved, rargs>>
signinVars == <<users, spc, sargs, suser, compareCalls, tokenCalls, soutcome>>
vars == <<clientSchemas, schemaType, pc, idx, clientTypes, enumTypes, nextInstance,
          build, prevTypes, nodes, resolved, rargs, users, spc, sargs, suser,
          compareCalls, tokenCalls, soutcome>>

(***************************************************************************)
(* Bounds                                                                  *)
(***************************************************************************)
MaxFields == 2     \* fields per entity schema
MaxBuilds == 2     \* createTypes calls on the same input
MaxRecords == 2    \* records a backend list call returns
MaxUsers == 2      \* User records the backend holds

(***************************************************************************)
(* Strings                                                                 *)
(***************************************************************************)
S_id == <<"i", "d">>
S_Id == <<"I", "d">>
S_ASC == <<"_", "A", "S", "C">>
S_DESC == <<"_", "D", "E", "S", "C">>
S_role == <<"r", "o", "l", "e">>
S_friend == <<"f", "r", "i", "e", "n", "d">>
S_posts == <<"p", "o", "s", "t", "s">>
S_key == <<"k", "e", "y">>
S_name == <<"n", "a", "m", "e">>
S_n == <<"n">>
S_n_DESC == <<"n", "_", "D", "E", "S", "C">>
S_author == <<"a", "u", "t", "h", "o", "r">>

Chars == [User |-> <<"U", "s", "e", "r">>, Post |-> <<"P", "o", "s", "t">>]

EmptyMap == [k \in {} |-> k]

Range(s) == {s[i] : i \in DOMAIN s}

(***************************************************************************)
(* The graphql library's types                                             *)
(***************************************************************************)
GraphQLString == [kind |-> "Scalar", name |-> "String"]
GraphQLBoolean == [kind |-> "Scalar", name |-> "Boolean"]
GraphQLInt == [kind |-> "Scalar", name |-> "Int"]
GraphQLFloat == [kind |-> "Scalar", name |-> "Float"]
GraphQLID == [kind |-> "Scalar", name |-> "ID"]

GraphQLNonNull(type) == [kind |-> "NonNull", ofType |-> type]

isRelation(type) == type.kind = "Relation"

\* ../utils/array.js mapArrayToObject: keys[i] -> vals[i], a later key overwriting
mapArrayToObject(keys, vals) ==
  [k \in Range(keys) |->
     vals[CHOOSE i \in DOMAIN keys : keys[i] = k /\ \A j \in DOMAIN keys : keys[j] = k => j <= i]]

\* ../utils/object.js mergeObjects
mergeObjects(a, b) ==
  [k \in DOMAIN a \cup DOMAIN b |-> IF k \in DOMAIN b THEN b[k] ELSE a[k]]

\* ../utils/graphql.js isScalar
isScalar(typeIdentifier) ==
  typeIdentifier \in {"String", "Int", "Float", "Boolean", "GraphQLID", "Password", "Enum"}

(***************************************************************************)
(* createTypes: the type mapper                                            *)
(***************************************************************************)
\* st = [enumTypes, next]: the enum cache of this createTypes call and the
\* allocation counter; each operator returns the type and the cache after the call.
\* new GraphQLEnumType({name, values}): a new object, cached under its name
newEnumType(field, enumTypeName, st) ==
  LET e == [kind |-> "Enum", name |-> enumTypeName,
            values |-> Range(field.enumValues), inst |-> st.next]
  IN [type |-> e,
      st |-> [enumTypes |-> mergeObjects(st.enumTypes, enumTypeName :> e),
              next |-> st.next + 1]]

\* variant: the cache is never consulted
parseClientTypeNoCache(field, modelName, st) ==
  LET ti == field.typeIdentifier IN
  IF ti = "String" THEN [type |-> GraphQLString, st |-> st]
  ELSE IF ti = "Boolean" THEN [type |-> GraphQLBoolean, st |-> st]
  ELSE IF ti = "Int" THEN [type |-> GraphQLInt, st |-> st]
  ELSE IF ti = "Float" THEN [type |-> GraphQLFloat, st |-> st]
  ELSE IF ti = "GraphQLID" THEN [type |-> GraphQLID, st |-> st]
  ELSE IF ti = "Password" THEN [type |-> GraphQLString, st |-> st]
  ELSE IF ti = "Enum" THEN
    newEnumType(field, Chars[modelName] \o <<"_">> \o field.fieldName, st)
  ELSE [type |-> [kind |-> "Relation", typeIdentifier |-> ti], st |-> st]

\* variant: the identifier of the ID case is 'ID'
parseClientTypeIDCase(field, modelName, st) ==
  LET ti == field.typeIdentifier IN
  IF ti = "String" THEN [type |-> GraphQLString, st |-> st]
  ELSE IF ti = "Boolean" THEN [type |-> GraphQLBoolean, st |-> st]
  ELSE IF ti = "Int" THEN [type |-> GraphQLInt, st |-> st]
  ELSE IF ti = "Float" THEN [type |-> GraphQLFloat, st |-> st]
  ELSE IF ti = "ID" THEN [type |-> GraphQLID, st |-> st]
  ELSE IF ti = "Password" THEN [type |-> GraphQLString, st |-> st]
  ELSE IF ti = "Enum" THEN
    LET enumTypeName == Chars[modelName] \o <<"_">> \o field.fieldName IN
    IF enumTypeName \in DOMAIN st.enumTypes
    THEN [type |-> st.enumTypes[enumTypeName], st |-> st]
    ELSE newEnumType(field, enumTypeName, st)
  ELSE [type |-> [kind |-> "Relation", typeIdentifier |-> ti], st |-> st]

parseClientType(field, modelName, st) ==
  LET ti == field.typeIdentifier IN
  IF ti = "String" THEN [type |-> GraphQLString, st |-> st]
  ELSE IF ti = "Boolean" THEN [type |-> GraphQLBoolean, st |-> st]
  ELSE IF ti = "Int" THEN [type |-> GraphQLInt, st |-> st]
  ELSE IF ti = "Float" THEN [type |-> GraphQLFloat, st |-> st]
  ELSE IF ti = "GraphQLID" THEN [type |-> GraphQLID, st |-> st]
  ELSE IF ti = "Password" THEN [type |-> GraphQLString, st |-> st]
  ELSE IF ti = "Enum" THEN
    LET enumTypeName == Chars[modelName] \o <<"_">> \o field.fieldName IN
    IF enumTypeName \in DOMAIN st.enumTypes
    THEN [type |-> st.enumTypes[enumTypeName], st |-> st]
    ELSE newEnumType(field, enumTypeName, st)
  ELSE [type |-> [kind |-> "Relation", typeIdentifier |-> ti], st |-> st]

\* one parseClientType call per element of fields, in order (an Array.filter or
\* Array.map whose callback calls parseClientType)
RECURSIVE ParsePass(_, _, _)
ParsePass(fields, modelName, st) ==
  IF fields = <<>> THEN [types |-> <<>>, st |-> st]
  ELSE LET r == parseClientType(Head(fields), modelName, st)
           rest == ParsePass(Tail(fields), modelName, r.st)
       IN [types |-> <<r.type>> \o rest.types, st |-> rest.st]

\* the elements of s at the indices in keep, in order (Array.filter)
RECURSIVE FilterIdx(_, _, _)
FilterIdx(s, keep, i) ==
  IF i > Len(s) THEN <<>>
  ELSE (IF i \in keep THEN <<s[i]>> ELSE <<>>) \o FilterIdx(s, keep, i + 1)

\* the GraphQLObjectType, p being the parseClientType calls of its fields
objectTypeOf(clientSchema, p) ==
  [objectType |->
     [name |-> clientSchema.modelName,
      fields |->
        mapArrayToObject(
          [i \in DOMAIN clientSchema.fields |-> clientSchema.fields[i].fieldName],
          [i \in DOMAIN clientSchema.fields |->
             [type |-> p.types[i],
              args |-> "none",
              resolve |-> IF clientSchema.fields[i].fieldName = S_id
                          THEN "toGlobalId" ELSE "value"]])],
   st |-> p.st]

generateObjectType(clientSchema, st) ==
  objectTypeOf(clientSchema, ParsePass(clientSchema.fields, clientSchema.modelName, st))

\* the scalarArguments of generateObjectMutationInputArguments: types[i] is what
\* the second parseClientType call returns for scalarFields[i]
scalarArguments(scalarFields, types, forceFieldsOptional, forceIdFieldOptional) ==
  mapArrayToObject(
    [i \in DOMAIN scalarFields |-> scalarFields[i].fieldName],
    [i \in DOMAIN scalarFields |->
       [type |->
          IF scalarFields[i].isRequired
             /\ ~(forceFieldsOptional
                  /\ (forceIdFieldOptional \/ scalarFields[i].fieldName # S_id))
          THEN GraphQLNonNull(types[i])
          ELSE types[i]]])

\* the oneToOneArguments of generateObjectMutationInputArguments
oneToOneArguments(onetoOneFields, forceFieldsOptional) ==
  mapArrayToObject(
    [i \in DOMAIN onetoOneFields |-> onetoOneFields[i].fieldName \o S_Id],
    [i \in DOMAIN onetoOneFields |->
       [type |->
          IF onetoOneFields[i].isRequired /\ ~forceFieldsOptional
          THEN GraphQLNonNull(GraphQLID)
          ELSE GraphQLID]])

\* clientSchema.fields.filter(oneToOneFilter), p3 being its parseClientType
\* calls; oneToOneFilter is the same in all three callers:
\* parseClientType(field).__isRelation && !field.isList
mergeArguments(fields, forceFieldsOptional, scalarArgs, p3) ==
  [args |->
     mergeObjects(
       scalarArgs,
       oneToOneArguments(
         FilterIdx(fields,
                   {i \in DOMAIN fields : isRelation(p3.types[i]) /\ ~fields[i].isList}, 1),
         forceFieldsOptional)),
   st |-> p3.st]

\* the mapArrayToObject over scalarFields, p2 being its parseClientType calls
mapScalarFields(clientSchema, forceFieldsOptional, forceIdFieldOptional, scalarFields, p2) ==
  mergeArguments(
    clientSchema.fields, forceFieldsOptional,
    scalarArguments(scalarFields, p2.types, forceFieldsOptional, forceIdFieldOptional),
    ParsePass(clientSchema.fields, clientSchema.modelName, p2.st))

parseScalarFields(clientSchema, forceFieldsOptional, forceIdFieldOptional, scalarFields, st) ==
  mapScalarFields(clientSchema, forceFieldsOptional, forceIdFieldOptional, scalarFields,
                  ParsePass(scalarFields, clientSchema.modelName, st))

\* clientSchema.fields.filter(scalarFilter), p1 being its parseClientType calls;
\* scalarFilter is (field) => !parseClientType(field).__isRelation, with
\* && field.fieldName !== 'id' when excludeId
filterScalarFields(clientSchema, excludeId, forceFieldsOptional, forceIdFieldOptional, p1) ==
  parseScalarFields(
    clientSchema, forceFieldsOptional, forceIdFieldOptional,
    FilterIdx(clientSchema.fields,
              {i \in DOMAIN clientSchema.fields :
                 ~isRelation(p1.types[i])
                 /\ (excludeId => clientSchema.fields[i].fieldName # S_id)}, 1),
    p1.st)

generateObjectMutationInputArguments(clientSchema, excludeId, forceFieldsOptional, forceIdFieldOptional, st) ==
  filterScalarFields(clientSchema, excludeId, forceFieldsOptional, forceIdFieldOptional,
                     ParsePass(clientSchema.fields, clientSchema.modelName, st))

generateCreateObjectMutationInputArguments(clientSchema, st) ==
  generateObjectMutationInputArguments(clientSchema, TRUE, FALSE, FALSE, st)

\* variant: the update arguments keep every required flag
generateUpdateKeepRequired(clientSchema, st) ==
  generateObjectMutationInputArguments(clientSchema, FALSE, FALSE, FALSE, st)

generateUpdateObjectMutationInputArguments(clientSchema, st) ==
  generateObjectMutationInputArguments(clientSchema, FALSE, TRUE, FALSE, st)

RECURSIVE OrderByValues(_)
OrderByValues(fields) ==
  IF fields = <<>> THEN <<>>
  ELSE (IF isScalar(Head(fields).typeIdentifier)
        THEN <<Head(fields).fieldName \o S_ASC, Head(fields).fieldName \o S_DESC>>
        ELSE <<>>) \o OrderByValues(Tail(fields))

generateQueryOrderByEnum(clientSchema) ==
  [kind |-> "Enum",
   name |-> Chars[clientSchema.modelName] \o <<"S", "o", "r", "t", "B", "y">>,
   values |-> Range(OrderByValues(clientSchema.fields))]

connectionArgs == {"after", "first", "before", "last"}
simpleConnectionArgs == {"skip", "take"}

\* mergeObjects(pagination arguments, {filter, orderBy}): the keys are fixed, so
\* the merged object is a record; paging holds the names of the pagination arguments
queryFilterInputArgumentsOf(clientSchema, mode, r) ==
  [args |->
     [paging |-> IF mode = "RELAY" THEN connectionArgs ELSE simpleConnectionArgs,
      filter |-> [kind |-> "InputObject",
                  name |-> Chars[clientSchema.modelName] \o <<"F", "i", "l", "t", "e", "r">>,
                  fields |-> r.args],
      orderBy |-> generateQueryOrderByEnum(clientSchema)],
   st |-> r.st]

generateQueryFilterInputArguments(clientSchema, mode, st) ==
  queryFilterInputArgumentsOf(
    clientSchema, mode,
    generateObjectMutationInputArguments(clientSchema, FALSE, TRUE, TRUE, st))

\* the callback of the first mapArrayToObject of createTypes: one entity's
\* bundle, from the results o, c, u, q of the four generators called in order
bundleOf(clientSchema, o, c, u, q) ==
  [bundle |->
     [clientSchema |-> clientSchema,
      objectType |-> o.objectType,
      connectionType |-> [kind |-> "Connection", name |-> clientSchema.modelName],
      edgeType |-> [kind |-> "Edge", name |-> clientSchema.modelName],
      createMutationInputArguments |-> c.args,
      updateMutationInputArguments |-> u.args,
      queryFilterInputArguments |-> q.args],
   st |-> q.st]

bundleAfterUpdate(clientSchema, mode, o, c, u) ==
  bundleOf(clientSchema, o, c, u, generateQueryFilterInputArguments(clientSchema, mode, u.st))

bundleAfterCreate(clientSchema, mode, o, c) ==
  bundleAfterUpdate(clientSchema, mode, o, c,
                    generateUpdateObjectMutationInputArguments(clientSchema, c.st))

bundleAfterObjectType(clientSchema, mode, o) ==
  bundleAfterCreate(clientSchema, mode, o,
                    generateCreateObjectMutationInputArguments(clientSchema, o.st))

generateBundle(clientSchema, mode, st) ==
  bundleAfterObjectType(clientSchema, mode, generateObjectType(clientSchema, st))

(***************************************************************************)
(* createTypes: the relationship pass and the non-null pass                *)
(***************************************************************************)
\* forEach over the relation fields, in order; threw when allClientTypes has no
\* entry for a field's typeIdentifier (reading a property of undefined)
RECURSIVE InjectFields(_, _, _, _)
InjectFields(objectTypeFields, todo, clientSchema, allClientTypes) ==
  IF todo = <<>> THEN [fields |-> objectTypeFields, threw |-> FALSE]
  ELSE
    LET clientSchemaField == Head(todo)
        fieldName == clientSchemaField.fieldName
        typeIdentifier == objectTypeFields[fieldName].type.typeIdentifier
    IN IF typeIdentifier \notin DOMAIN allClientTypes
       THEN [fields |-> objectTypeFields, threw |-> TRUE]
       ELSE InjectFields(
              [objectTypeFields EXCEPT ![fieldName] =
                 IF clientSchemaField.isList
                 THEN [type |-> allClientTypes[typeIdentifier].connectionType,
                       args |-> allClientTypes[typeIdentifier].queryFilterInputArguments,
                       resolve |-> "allNodesByRelation"]
                 ELSE [type |-> [kind |-> "Object", name |-> typeIdentifier],
                       args |-> "none",
                       resolve |-> "node"]],
              Tail(todo), clientSchema, allClientTypes)

\* objectType with the fields the forEach left behind
injected(objectType, r) ==
  [objectType |-> [objectType EXCEPT !.fields = r.fields], threw |-> r.threw]

\* variant: list relations are left unwired
injectRelationshipsSkipLists(objectType, clientSchema, allClientTypes) ==
  injected(objectType,
           InjectFields(objectType.fields,
                        FilterIdx(clientSchema.fields,
                                  {i \in DOMAIN clientSchema.fields :
                                     isRelation(objectType.fields[clientSchema.fields[i].fieldName].type)
                                     /\ ~clientSchema.fields[i].isList}, 1),
                        clientSchema, allClientTypes))

injectRelationships(objectType, clientSchema, allClientTypes) ==
  injected(objectType,
           InjectFields(objectType.fields,
                        FilterIdx(clientSchema.fields,
                                  {i \in DOMAIN clientSchema.fields :
                                     isRelation(objectType.fields[clientSchema.fields[i].fieldName].type)}, 1),
                        clientSchema, allClientTypes))

RECURSIVE WrapFields(_, _)
WrapFields(objectTypeFields, todo) ==
  IF todo = <<>> THEN objectTypeFields
  ELSE WrapFields(
         [objectTypeFields EXCEPT ![Head(todo).fieldName].type = GraphQLNonNull(@)],
         Tail(todo))

wrapWithNonNullAll(objectType, clientSchema) ==
  [objectType EXCEPT !.fields = WrapFields(@, clientSchema.fields)]

wrapWithNonNull(objectType, clientSchema) ==
  [objectType EXCEPT !.fields =
     WrapFields(@, FilterIdx(clientSchema.fields,
                             {i \in DOMAIN clientSchema.fields :
                                clientSchema.fields[i].isRequired}, 1))]

(***************************************************************************)
(* createTypes: the inputs                                                 *)
(***************************************************************************)
ModelNames == <<"User", "Post">>

\* the field descriptors an entity schema is made of (isRequired is free)
Pool ==
  << [fieldName |-> S_id, typeIdentifier |-> "GraphQLID", isList |-> FALSE,
      isRequired |-> FALSE, enumValues |-> <<>>],
     [fieldName |-> S_role, typeIdentifier |-> "Enum", isList |-> FALSE,
      isRequired |-> FALSE, enumValues |-> <<"ADMIN", "GUEST">>],
     [fieldName |-> S_friend, typeIdentifier |-> "User", isList |-> FALSE,
      isRequired |-> FALSE, enumValues |-> <<>>],
     [fieldName |-> S_posts, typeIdentifier |-> "Post", isList |-> TRUE,
      isRequired |-> FALSE, enumValues |-> <<>>],
     [fieldName |-> S_key, typeIdentifier |-> "ID", isList |-> FALSE,
      isRequired |-> FALSE, enumValues |-> <<>>] >>

RECURSIVE SortedSeq(_)
SortedSeq(S) ==
  IF S = {} THEN <<>>
  ELSE LET m == CHOOSE x \in S : \A y \in S : x <= y
       IN <<m>> \o SortedSeq(S \ {m})

FieldLists ==
  {[i \in DOMAIN SortedSeq(S) |-> [Pool[SortedSeq(S)[i]] EXCEPT !.isRequired = req[SortedSeq(S)[i]]]] :
     <<S, req>> \in UNION {{S2} \X [S2 -> BOOLEAN] :
                            S2 \in {S3 \in SUBSET DOMAIN Pool :
                                      Cardinality(S3) \in 1..MaxFields}}}

Batches ==
  UNION {{[i \in 1..n |-> [modelName |-> ModelNames[i], fields |-> fl[i]]] :
            fl \in [1..n -> FieldLists]} : n \in 1..Len(ModelNames)}

(***************************************************************************)
(* createTypes, one action per loop iteration                              *)
(***************************************************************************)
Bundle(modelName) == clientTypes[modelName]

\* the body of the first mapArrayToObject callback, for clientSchemas[idx]
BuildBundle ==
  /\ pc = "build"
  /\ \E r \in {generateBundle(clientSchemas[idx], schemaType,
                                [enumTypes |-> enumTypes, next |-> nextInstance])} :
       /\ clientTypes' = mergeObjects(clientTypes, clientSchemas[idx].modelName :> r.bundle)
       /\ enumTypes' = r.st.enumTypes
       /\ nextInstance' = r.st.next
  /\ IF idx = Len(clientSchemas)
     THEN pc' = "inject" /\ idx' = 1
     ELSE pc' = pc /\ idx' = idx + 1
  /\ UNCHANGED <<clientSchemas, schemaType, build, prevTypes, queryVars, signinVars>>

\* one iteration of "for (const modelName in clientTypes) injectRelationships(...)"
InjectStep ==
  /\ pc = "inject"
  /\ \E modelName \in {clientSchemas[idx].modelName} :
       \E r \in {injectRelationships(clientTypes[modelName].objectType,
                                     clientTypes[modelName].clientSchema, clientTypes)} :
         /\ clientTypes' = [clientTypes EXCEPT ![modelName].objectType = r.objectType]
         /\ IF r.threw THEN pc' = "threw" /\ idx' = idx
            ELSE IF idx = Len(clientSchemas) THEN pc' = "wrap" /\ idx' = 1
            ELSE pc' = pc /\ idx' = idx + 1
  /\ UNCHANGED <<clientSchemas, schemaType, enumTypes, nextInstance, build, prevTypes,
                 queryVars, signinVars>>

\* one iteration of "for (const modelName in clientTypes) wrapWithNonNull(...)"
WrapStep ==
  /\ pc = "wrap"
  /\ LET modelName == clientSchemas[idx].modelName
     IN clientTypes' = [clientTypes EXCEPT ![modelName].objectType =
                          wrapWithNonNull(@, clientTypes[modelName].clientSchema)]
  /\ IF idx = Len(clientSchemas)
     THEN pc' = "viewer" /\ idx' = 1
     ELSE pc' = pc /\ idx' = idx + 1
  /\ UNCHANGED <<clientSchemas, schemaType, enumTypes, nextInstance, build, prevTypes,
                 queryVars, signinVars>>

\* viewerFields and viewerType are assembled and createTypes returns
Return ==
  /\ pc = "viewer"
  /\ pc' = "returned"
  /\ UNCHANGED <<clientSchemas, schemaType, idx, clientTypes, enumTypes, nextInstance,
                 build, prevTypes, queryVars, signinVars>>

\* createTypes is called again with the same input: a fresh clientTypes and a
\* fresh enumTypes, both local to the call
Recompile ==
  /\ pc = "returned"
  /\ build < MaxBuilds
  /\ build' = build + 1
  /\ prevTypes' = clientTypes
  /\ clientTypes' = EmptyMap
  /\ enumTypes' = EmptyMap
  /\ pc' = "build"
  /\ idx' = 1
  /\ UNCHANGED <<clientSchemas, schemaType, nextInstance, queryVars, signinVars>>

(***************************************************************************)
(* JavaScript values at request time                                       *)
(***************************************************************************)
\* a primitive value: its type tag, its characters when a string, its number
\* when a number
Str(s) == [t |-> "string", s |-> s, n |-> 0]
Num(k) == [t |-> "number", s |-> <<>>, n |-> k]
Null == [t |-> "null", s |-> <<>>, n |-> 0]
Undefined == [t |-> "undefined", s |-> <<>>, n |-> 0]

\* a === b
StrictEq(a, b) == a.t = b.t /\ a.s = b.s /\ a.n = b.n

\* ToBoolean
Truthy(a) ==
  IF a.t = "number" THEN a.n # 0
  ELSE IF a.t = "string" THEN a.s # <<>>
  ELSE FALSE

\* an object argument that may be absent: args.filter
NoObject == [given |-> FALSE, fields |-> EmptyMap]
Given(fields) == [given |-> TRUE, fields |-> fields]

\* obj[key]
Get(obj, key) == IF key \in DOMAIN obj THEN obj[key] ELSE Undefined

\* graphql-relay toGlobalId / fromGlobalId: an opaque string that is not the id
toGlobalId(type, id) == Str(<<type, ":", id>>)
fromGlobalId(globalId) == [type |-> globalId.s[1], id |-> globalId.s[3]]

\* String.prototype.indexOf, 0-based, -1 when absent
indexOf(s, pat) ==
  LET hits == {i \in 1..(Len(s) - Len(pat) + 1) : SubSeq(s, i, i + Len(pat) - 1) = pat}
  IN IF hits = {} THEN -1 ELSE (CHOOSE i \in hits : \A j \in hits : i <= j) - 1

\* String.prototype.split(sep)[0]
splitFirst(s, sep) ==
  IF indexOf(s, sep) = -1 THEN s ELSE SubSeq(s, 1, indexOf(s, sep))

\* String.prototype.toLowerCase
toLowerCase(s) ==
  [i \in DOMAIN s |-> IF s[i] = "A" THEN "a" ELSE IF s[i] = "B" THEN "b" ELSE s[i]]

CharRank(c) == IF c = "a" THEN 1 ELSE IF c = "b" THEN 2 ELSE IF c = "A" THEN 3 ELSE 4

\* String.prototype.localeCompare on strings of one case: -1, 0 or 1
RECURSIVE localeCompare(_, _)
localeCompare(a, b) ==
  IF a = <<>> /\ b = <<>> THEN 0
  ELSE IF a = <<>> THEN -1
  ELSE IF b = <<>> THEN 1
  ELSE IF CharRank(Head(a)) < CharRank(Head(b)) THEN -1
  ELSE IF CharRank(Head(a)) > CharRank(Head(b)) THEN 1
  ELSE localeCompare(Tail(a), Tail(b))

\* a - b; NaN (an operand that is no number) is what Array.prototype.sort
\* reads as +0
Minus(a, b) == IF a.t = "number" /\ b.t = "number" THEN a.n - b.n ELSE 0

\* Array.prototype.sort(comparator), stable: insertion from the left
RECURSIVE InsertSorted(_, _, _, _)
InsertSorted(sorted, x, fieldName, order) ==
  IF sorted = <<>> THEN <<x>>
  ELSE LET last == sorted[Len(sorted)]
           a == Get(last, fieldName)
           b == Get(x, fieldName)
           \* the comparator called as (last, x): positive when last sorts after x
           c == IF order = "DESC"
                THEN IF a.t = "string"
                     THEN localeCompare(toLowerCase(b.s), toLowerCase(a.s))
                     ELSE Minus(b, a)
                ELSE IF a.t = "string"
                     THEN localeCompare(toLowerCase(a.s), toLowerCase(b.s))
                     ELSE Minus(a, b)
       IN IF c > 0
          THEN InsertSorted(SubSeq(sorted, 1, Len(sorted) - 1), x, fieldName, order) \o <<last>>
          ELSE sorted \o <<x>>

RECURSIVE sortBy(_, _, _)
sortBy(array, fieldName, order) ==
  IF array = <<>> THEN <<>>
  ELSE InsertSorted(sortBy(SubSeq(array, 1, Len(array) - 1), fieldName, order),
                    array[Len(array)], fieldName, order)

\* Array.prototype.slice(from, to) for 0 <= from
slice(array, from, to) ==
  SubSeq(array, from + 1, IF to < Len(array) THEN to ELSE Len(array))

RECURSIVE SelectRecords(_, _)
SelectRecords(array, keep) ==
  IF array = <<>> THEN <<>>
  ELSE (IF keep[Head(array)] THEN <<Head(array)>> ELSE <<>>)
       \o SelectRecords(Tail(array), keep)

(***************************************************************************)
(* The resolvers createTypes installs                                      *)
(***************************************************************************)
getFilterPairsTruthy(filter) ==
  IF ~filter.given THEN {}
  ELSE {[field |-> field, value |-> filter.fields[field]] :
          field \in {k \in DOMAIN filter.fields : Truthy(filter.fields[k])}}

\* the pairs are only read through Array.every: their order is immaterial
getFilterPairsFromFilterArgument(filter) ==
  IF ~filter.given THEN {}
  ELSE {[field |-> field, value |-> filter.fields[field]] :
          field \in {k \in DOMAIN filter.fields :
                       filter.fields[k].t \notin {"null", "undefined"}}}

\* ../utils/graphql.js convertInputFieldsToInternalIds: the <fieldName>Id entry
\* of every one-to-one relation field is replaced by the id its global id encodes
convertInputFieldsToInternalIds(filter, clientSchema) ==
  LET relationKeys ==
        {f.fieldName \o S_Id :
           f \in {g \in Range(clientSchema.fields) :
                    ~isScalar(g.typeIdentifier) /\ ~g.isList}}
  IN Given([k \in DOMAIN filter.fields |->
              IF k \in relationKeys /\ Truthy(filter.fields[k])
              THEN Str(<<fromGlobalId(filter.fields[k]).id>>)
              ELSE filter.fields[k]])

\* array.filter((x) => getFilterPairsFromFilterArgument(filter).every(...))
applyFilter(array, filter) ==
  SelectRecords(array,
    [x \in Range(array) |->
       \A pair \in getFilterPairsFromFilterArgument(filter) :
         StrictEq(Get(x, pair.field), pair.value)])

\* graphql-relay connectionFromArray with the forward argument first
connectionFromArray(array, args) ==
  LET end == IF args.first.t = "number" /\ args.first.n < Len(array)
             THEN args.first.n ELSE Len(array)
  IN [edges |-> [i \in 1..end |-> [cursor |-> i - 1, node |-> array[i]]],
      pageInfo |-> [hasPreviousPage |-> FALSE,
                    hasNextPage |-> args.first.t = "number" /\ end < Len(array)]]

\* a settled promise: fulfilled with a connection object, with an array or
\* with undefined, or rejected with a reason
NoPageInfo == [hasPreviousPage |-> FALSE, hasNextPage |-> FALSE]
NotSettled ==
  [state |-> "none", t |-> "none", edges |-> <<>>, pageInfo |-> NoPageInfo,
   totalCount |-> 0, items |-> <<>>, reason |-> ""]
FulfilledConnection(edges, pageInfo, totalCount) ==
  [NotSettled EXCEPT !.state = "fulfilled", !.t = "connection", !.edges = edges,
                     !.pageInfo = pageInfo, !.totalCount = totalCount]
FulfilledArray(items) ==
  [NotSettled EXCEPT !.state = "fulfilled", !.t = "array", !.items = items]
FulfilledUndefined == [NotSettled EXCEPT !.state = "fulfilled", !.t = "undefined"]
Rejected(reason) == [NotSettled EXCEPT !.state = "rejected", !.t = "error", !.reason = reason]

\* what the backend's promise settles to: the list, a rejection, or null
\* in place of a list
BackendOutcomes == {"list", "reject", "null"}

\* if (args.filter) { args.filter = convertInputFieldsToInternalIds(...);
\*                    array = array.filter(...) }
filterArray(array, filter, clientSchema) ==
  IF filter.given
  THEN applyFilter(array, convertInputFieldsToInternalIds(filter, clientSchema))
  ELSE array

\* {edges, pageInfo, totalCount: array.length}, c being connectionFromArray(array, args)
connectionOf(array, c) == FulfilledConnection(c.edges, c.pageInfo, Len(array))

\* the .then callback of the one-to-many resolver
relationThen(args, related, relatedSchema) ==
  connectionOf(filterArray(related, args.filter, relatedSchema),
               connectionFromArray(filterArray(related, args.filter, relatedSchema), args))

\* backend.allNodesByRelation(...).then(...): a backend value that is no array
\* makes the callback throw
relationPromise(args, outcome, related, relatedSchema) ==
  IF outcome = "reject" THEN Rejected("backend")
  ELSE IF outcome = "null" THEN Rejected("TypeError")
  ELSE relationThen(args, related, relatedSchema)

\* .catch(console.log): a rejection becomes what console.log returns
catchLog(settled) == IF settled.state = "rejected" THEN FulfilledUndefined ELSE settled

\* variant: without the .catch
relationResolveNoCatch(args, outcome, related, relatedSchema) ==
  relationPromise(args, outcome, related, relatedSchema)

\* objectTypeField.resolve of a list relation:
\* backend.allNodesByRelation(...).then(...).catch(console.log)
relationResolve(args, outcome, related, relatedSchema) ==
  catchLog(relationPromise(args, outcome, related, relatedSchema))

\* array.sort(...) with the comparator of the order
sortArray(array, orderBy, order) ==
  sortBy(array, splitFirst(orderBy.s, IF order = "DESC" THEN S_DESC ELSE S_ASC), order)

\* if (args.orderBy) { order = indexOf('_DESC') > -1 ? 'DESC' : 'ASC'; ... }
orderArray(array, orderBy) ==
  IF Truthy(orderBy)
  THEN sortArray(array, orderBy, IF indexOf(orderBy.s, S_DESC) > -1 THEN "DESC" ELSE "ASC")
  ELSE array

\* array.slice(skip, skip + take)
sliceOf(array, skip, take) == FulfilledArray(slice(array, skip, skip + take))

\* the connection in RELAY mode; skip = args.skip || 0 and
\* take = args.take || array.length otherwise
paginate(array, args, mode) ==
  IF mode = "RELAY"
  THEN connectionOf(array, connectionFromArray(array, args))
  ELSE sliceOf(array,
               IF Truthy(args.skip) THEN args.skip.n ELSE 0,
               IF Truthy(args.take) THEN args.take.n ELSE Len(array))

\* the .then callback of viewerFields[`all${modelName}s`].resolve
allNodesThen(args, all, clientSchema, mode) ==
  paginate(orderArray(filterArray(all, args.filter, clientSchema), args.orderBy), args, mode)

\* viewerFields[`all${modelName}s`].resolve: backend.allNodesByType(...).then(...)
allNodesResolve(args, outcome, all, clientSchema, mode) ==
  IF outcome = "reject" THEN Rejected("backend")
  ELSE IF outcome = "null" THEN Rejected("TypeError")
  ELSE allNodesThen(args, all, clientSchema, mode)

(***************************************************************************)
(* The queried entity and the requests                                     *)
(***************************************************************************)
PostSchema ==
  [modelName |-> "Post",
   fields |->
     << [fieldName |-> S_name, typeIdentifier |-> "String", isList |-> FALSE,
         isRequired |-> TRUE, enumValues |-> <<>>],
        [fieldName |-> S_n, typeIdentifier |-> "Int", isList |-> FALSE,
         isRequired |-> FALSE, enumValues |-> <<>>],
        [fieldName |-> S_n_DESC, typeIdentifier |-> "Int", isList |-> FALSE,
         isRequired |-> FALSE, enumValues |-> <<>>],
        [fieldName |-> S_author, typeIdentifier |-> "User", isList |-> FALSE,
         isRequired |-> FALSE, enumValues |-> <<>>] >>]

S_authorId == S_author \o S_Id

PostBundle ==
  generateBundle(PostSchema, "SIMPLE", [enumTypes |-> EmptyMap, next |-> 0]).bundle

\* stored Post records
Records ==
  {(S_name :> name) @@ (S_n :> n) @@ (S_n_DESC :> d) @@ (S_authorId :> Str(<<"u1">>)) :
     name \in {Str(<<"a">>), Str(<<"B">>)}, n \in {Num(0), Num(1)}, d \in {Num(0), Num(1)}}

Arrays == UNION {[1..k -> Records] : k \in 0..MaxRecords}

FilterKeys == DOMAIN PostBundle.queryFilterInputArguments.filter.fields

FilterValues(key) ==
  IF key = S_name THEN {Null, Str(<<"a">>)}
  ELSE IF key = S_n THEN {Null, Num(0)}
  ELSE IF key = S_authorId THEN {Null, toGlobalId("User", "u1")}
  ELSE {Null}

FiltersOver(keys) ==
  {NoObject} \cup
  {Given(f) : f \in {g \in [keys -> UNION {FilterValues(k) : k \in keys}] :
                       \A k \in keys : g[k] \in FilterValues(k)}}

Filters == FiltersOver(FilterKeys)

OrderBys == {Undefined} \cup {Str(v) : v \in PostBundle.queryFilterInputArguments.orderBy.values}

Skips == {Undefined, Num(0), Num(1)}

Takes == {Undefined, Num(0), Num(1), Num(2)}

Firsts == {Undefined, Num(1)}

NoArgs ==
  [filter |-> NoObject, orderBy |-> Undefined, skip |-> Undefined, take |-> Undefined,
   first |-> Undefined]

\* a request for a list relation field whose target is Post; the backend's
\* promise resolves to the related records
ResolveRelation ==
  /\ resolved.state = "none"
  /\ \E args \in {[NoArgs EXCEPT !.filter = filter, !.first = first] :
                   filter \in Filters, first \in Firsts} :
       /\ rargs' = [call |-> "relation", args |-> args, outcome |-> "list"]
       /\ resolved' = relationResolve(args, "list", nodes, PostSchema)
  /\ UNCHANGED <<nodes, schemaType, typeVars, signinVars>>

\* the same request when the backend's promise rejects, or resolves to no list
ResolveRelationFailing ==
  /\ resolved.state = "none"
  /\ \E args \in {[NoArgs EXCEPT !.filter = filter] : filter \in Filters},
        outcome \in BackendOutcomes \ {"list"} :
       /\ rargs' = [call |-> "relation", args |-> args, outcome |-> outcome]
       /\ resolved' = relationResolve(args, outcome, nodes, PostSchema)
  /\ UNCHANGED <<nodes, schemaType, typeVars, signinVars>>

\* a request for the root field allPosts; the backend's promise resolves to
\* the stored records
ResolveAllNodes ==
  /\ resolved.state = "none"
  /\ \E args \in {[filter |-> filter, orderBy |-> orderBy, skip |-> skip,
                     take |-> take, first |-> first] :
                      filter \in Filters, orderBy \in OrderBys,
                      skip \in IF schemaType = "SIMPLE" THEN Skips ELSE {Undefined},
                      take \in IF schemaType = "SIMPLE" THEN Takes ELSE {Undefined},
                      first \in IF schemaType = "RELAY" THEN Firsts ELSE {Undefined}} :
       /\ rargs' = [call |-> "allNodes", args |-> args, outcome |-> "list"]
       /\ resolved' = allNodesResolve(args, "list", nodes, PostSchema, schemaType)
  /\ UNCHANGED <<nodes, schemaType, typeVars, signinVars>>

\* the same request when the backend's promise rejects, or resolves to no list
ResolveAllNodesFailing ==
  /\ resolved.state = "none"
  /\ \E args \in {[NoArgs EXCEPT !.filter = filter] : filter \in Filters},
        outcome \in BackendOutcomes \ {"list"} :
       /\ rargs' = [call |-> "allNodes", args |-> args, outcome |-> outcome]
       /\ resolved' = allNodesResolve(args, outcome, nodes, PostSchema, schemaType)
  /\ UNCHANGED <<nodes, schemaType, typeVars, signinVars>>

(***************************************************************************)
(* The signinUser mutation                                                 *)
(***************************************************************************)
NoUser == [id |-> 0, email |-> "", password |-> ""]

\* allUsers.filter((node) => node.email === args.email)[0]; found is false
\* when the [0] of the empty array is undefined
findUser(allUsers, email) ==
  LET hits == SelectSeq(allUsers, LAMBDA node : node.email = email)
  IN IF hits = <<>> THEN [found |-> FALSE, user |-> NoUser]
     ELSE [found |-> TRUE, user |-> hits[1]]

\* the promise mutateAndGetPayload returns: pending, rejected with a message,
\* or fulfilled with {token, viewer: {id}}
Pending == [state |-> "pending", message |-> "", email |-> "", token |-> [issuedFor |-> 0], viewerId |-> 0]
RejectedMessage(message, email) ==
  [Pending EXCEPT !.state = "rejected", !.message = message, !.email = email]
Payload(token, id) == [Pending EXCEPT !.state = "fulfilled", !.token = token, !.viewerId = id]

\* backend.tokenForUser: the token names the record it was issued for
tokenForUser(user) == [issuedFor |-> user.id]

signinPayloadUnchecked(result, user, args) ==
  [outcome |-> Payload(tokenForUser(user), user.id), tokenCalls |-> <<user>>]

\* the two callbacks that follow compareHashAsync: reject on a false result,
\* otherwise issue the token and build the payload
signinPayload(result, user, args) ==
  IF ~result
  THEN [outcome |-> RejectedMessage("incorrect password for email", args.email),
        tokenCalls |-> <<>>]
  ELSE [outcome |-> Payload(tokenForUser(user), user.id), tokenCalls |-> <<user>>]

Emails == {"a@b.com", "c@d.com"}
Hashes == {"h1", "h2"}
Passwords == {"secret", "guess"}

\* the User records of the backend; a record's id is its position
UserLists ==
  UNION {{[i \in 1..k |-> [id |-> i, email |-> e[i], password |-> h[i]]] :
            e \in [1..k -> Emails], h \in [1..k -> Hashes]} : k \in 0..MaxUsers}

\* mutateAndGetPayload is called: backend.NO_PERMISSION_CHECK_allNodesByType('User')
SigninCall ==
  /\ spc = "idle"
  /\ \E email \in Emails, password \in Passwords :
       sargs' = [email |-> email, password |-> password]
  /\ spc' = "listing"
  /\ UNCHANGED <<users, suser, compareCalls, tokenCalls, soutcome, typeVars, schemaType,
                 queryVars>>

\* the list promise resolves: the first two .then callbacks run
SigninListed ==
  /\ spc = "listing"
  /\ LET r == findUser(users, sargs.email)
     IN IF ~r.found
        THEN /\ soutcome' = RejectedMessage("no user with the email", sargs.email)
             /\ spc' = "done"
             /\ UNCHANGED <<suser, compareCalls>>
        ELSE /\ suser' = r.user
             /\ compareCalls' = Append(compareCalls,
                                  [password |-> sargs.password, hash |-> r.user.password,
                                   user |-> r.user, result |-> "pending"])
             /\ spc' = "comparing"
             /\ UNCHANGED soutcome
  /\ UNCHANGED <<users, sargs, tokenCalls, typeVars, schemaType, queryVars>>

\* the list promise rejects
SigninListRejected ==
  /\ spc = "listing"
  /\ soutcome' = RejectedMessage("backend list error", sargs.email)
  /\ spc' = "done"
  /\ UNCHANGED <<users, sargs, suser, compareCalls, tokenCalls, typeVars, schemaType,
                 queryVars>>

\* compareHashAsync resolves to a boolean: the last callbacks run
SigninCompared ==
  /\ spc = "comparing"
  /\ \E result \in BOOLEAN :
       LET r == signinPayload(result, suser, sargs)
       IN /\ compareCalls' = [compareCalls EXCEPT ![Len(compareCalls)].result =
                                IF result THEN "true" ELSE "false"]
          /\ soutcome' = r.outcome
          /\ tokenCalls' = tokenCalls \o r.tokenCalls
  /\ spc' = "done"
  /\ UNCHANGED <<users, sargs, suser, typeVars, schemaType, queryVars>>

\* compareHashAsync rejects
SigninCompareRejected ==
  /\ spc = "comparing"
  /\ compareCalls' = [compareCalls EXCEPT ![Len(compareCalls)].result = "rejected"]
  /\ soutcome' = RejectedMessage("backend compare error", sargs.email)
  /\ spc' = "done"
  /\ UNCHANGED <<users, sargs, suser, tokenCalls, typeVars, schemaType, queryVars>>

(***************************************************************************)
(* The specifications                                                      *)
(***************************************************************************)
NoCall == [call |-> "none", args |-> NoArgs, outcome |-> "none"]

QueryIdle ==
  /\ nodes = <<>>
  /\ resolved = NotSettled
  /\ rargs = NoCall

SigninIdle ==
  /\ users = <<>>
  /\ spc = "idle"
  /\ sargs = [email |-> "", password |-> ""]
  /\ suser = NoUser
  /\ compareCalls = <<>>
  /\ tokenCalls = <<>>
  /\ soutcome = Pending

TypesIdle ==
  /\ clientSchemas = <<>>
  /\ pc = "returned"
  /\ idx = 1
  /\ clientTypes = EmptyMap
  /\ enumTypes = EmptyMap
  /\ nextInstance = 0
  /\ build = 1
  /\ prevTypes = EmptyMap

Init ==
  /\ clientSchemas \in Batches
  /\ schemaType = "RELAY"     \* generateSchema's default
  /\ pc = "build"
  /\ idx = 1
  /\ clientTypes = EmptyMap
  /\ enumTypes = EmptyMap
  /\ nextInstance = 0
  /\ build = 1
  /\ prevTypes = EmptyMap
  /\ QueryIdle
  /\ SigninIdle

Next ==
  \/ BuildBundle
  \/ InjectStep
  \/ WrapStep
  \/ Return
  \/ Recompile

Spec == Init /\ [][Next]_vars

QueryInit ==
  /\ nodes \in Arrays
  /\ schemaType \in {"RELAY", "SIMPLE"}
  /\ resolved = NotSettled
  /\ rargs = NoCall
  /\ TypesIdle
  /\ SigninIdle

QueryNext ==
  \/ ResolveRelation
  \/ ResolveRelationFailing
  \/ ResolveAllNodes
  \/ ResolveAllNodesFailing

SpecQuery == QueryInit /\ [][QueryNext]_vars

SigninInit ==
  /\ users \in UserLists
  /\ spc = "idle"
  /\ sargs = [email |-> "", password |-> ""]
  /\ suser = NoUser
  /\ compareCalls = <<>>
  /\ tokenCalls = <<>>
  /\ soutcome = Pending
  /\ schemaType = "RELAY"
  /\ TypesIdle
  /\ QueryIdle

SigninNext ==
  \/ SigninCall
  \/ SigninListed
  \/ SigninListRejected
  \/ SigninCompared
  \/ SigninCompareRejected

SpecSignin == SigninInit /\ [][SigninNext]_vars

(***************************************************************************)
(* Properties of createTypes                                               *)
(***************************************************************************)
Strip(type) == IF type.kind = "NonNull" THEN type.ofType ELSE type

Built == DOMAIN clientTypes

SchemaFields(m) == Range(clientTypes[m].clientSchema.fields)

ObjType(m, f) == clientTypes[m].objectType.fields[f.fieldName].type

BatchNames == {clientSchemas[i].modelName : i \in DOMAIN clientSchemas}

\* the identifiers the switch of parseClientType has a case for
CaseIdentifiers == {"String", "Boolean", "Int", "Float", "GraphQLID", "Password", "Enum"}

\* the identifiers the specification lists
ListedIdentifiers == {"String", "Boolean", "Int", "Float", "ID", "Password", "Enum"}

IsRelationField(f) == f.typeIdentifier \notin CaseIdentifiers

EnumKey(m, f) == Chars[m] \o <<"_">> \o f.fieldName

\* the type a field ends with, stated from the schema alone
FinalType(m, f) ==
  IF IsRelationField(f)
  THEN IF f.isList THEN [kind |-> "Connection", name |-> f.typeIdentifier]
       ELSE [kind |-> "Object", name |-> f.typeIdentifier]
  ELSE IF f.typeIdentifier = "Enum" THEN enumTypes[EnumKey(m, f)]
  ELSE IF f.typeIdentifier = "GraphQLID" THEN GraphQLID
  ELSE GraphQLString

\* C1: after createTypes returns, every required field of every entity has
\* NonNull applied exactly once around its final type, no field that is not
\* required is wrapped; and at no time does NonNull enclose a relation
\* placeholder.
C1_RequiredWrappedOnce ==
  /\ pc = "returned" =>
       \A m \in Built : \A f \in SchemaFields(m) :
         /\ f.isRequired => ObjType(m, f) = GraphQLNonNull(FinalType(m, f))
         /\ ~f.isRequired => ObjType(m, f) = FinalType(m, f)
  /\ \A m \in Built : \A f \in SchemaFields(m) :
       ObjType(m, f).kind = "NonNull" => ObjType(m, f).ofType.kind \notin {"Relation", "NonNull"}

C1_Witness ==
  /\ pc = "returned"
  /\ Len(clientSchemas) = 2
  /\ \E f \in SchemaFields("User") : f.isRequired /\ f.typeIdentifier = "Enum"
  /\ \E f \in SchemaFields("User") : f.isRequired /\ IsRelationField(f) /\ ~f.isList
  /\ \E f \in SchemaFields("Post") : f.isRequired /\ IsRelationField(f) /\ f.isList
  /\ \E f \in SchemaFields("Post") : ~f.isRequired /\ f.typeIdentifier = "GraphQLID"

\* the argument names the three shapes are to have, stated from the schema alone
ScalarNames(m) == {f.fieldName : f \in {g \in SchemaFields(m) : ~IsRelationField(g)}}

OneToOneNames(m) ==
  {f.fieldName \o S_Id : f \in {g \in SchemaFields(m) : IsRelationField(g) /\ ~g.isList}}

CreateArgs(m) == clientTypes[m].createMutationInputArguments
UpdateArgs(m) == clientTypes[m].updateMutationInputArguments
FilterFields(m) == clientTypes[m].queryFilterInputArguments.filter.fields

\* C6: create, update and filter arguments derive their names by one rule
\* (fieldName for a non-relation field, fieldName + 'Id' of type ID for a
\* one-to-one relation, nothing for a list relation); update names equal filter
\* names, create names are the update names minus 'id'; create keeps each
\* required flag, update is optional except an 'id' that is required, filter is
\* optional throughout.
C6_ArgumentNames ==
  \A m \in Built :
    /\ DOMAIN UpdateArgs(m) = ScalarNames(m) \cup OneToOneNames(m)
    /\ DOMAIN FilterFields(m) = DOMAIN UpdateArgs(m)
    /\ DOMAIN CreateArgs(m) = DOMAIN UpdateArgs(m) \ {S_id}
    /\ \A f \in SchemaFields(m) :
         /\ (IsRelationField(f) /\ ~f.isList) =>
              /\ Strip(CreateArgs(m)[f.fieldName \o S_Id].type) = GraphQLID
              /\ Strip(UpdateArgs(m)[f.fieldName \o S_Id].type) = GraphQLID
              /\ Strip(FilterFields(m)[f.fieldName \o S_Id].type) = GraphQLID
              /\ (CreateArgs(m)[f.fieldName \o S_Id].type.kind = "NonNull") = f.isRequired
              /\ UpdateArgs(m)[f.fieldName \o S_Id].type.kind # "NonNull"
              /\ FilterFields(m)[f.fieldName \o S_Id].type.kind # "NonNull"
         /\ (IsRelationField(f) /\ f.isList) =>
              /\ f.fieldName \notin DOMAIN UpdateArgs(m)
              /\ f.fieldName \o S_Id \notin DOMAIN UpdateArgs(m)
         /\ ~IsRelationField(f) =>
              /\ f.fieldName # S_id =>
                   (CreateArgs(m)[f.fieldName].type.kind = "NonNull") = f.isRequired
              /\ (UpdateArgs(m)[f.fieldName].type.kind = "NonNull")
                   = (f.fieldName = S_id /\ f.isRequired)
              /\ FilterFields(m)[f.fieldName].type.kind # "NonNull"

C6_Witness ==
  /\ "User" \in Built
  /\ \E f \in SchemaFields("User") : f.fieldName = S_id /\ f.isRequired
  /\ \E f \in SchemaFields("User") : IsRelationField(f) /\ ~f.isList /\ f.isRequired
  /\ "Post" \in Built
  /\ \E f \in SchemaFields("Post") : IsRelationField(f) /\ f.isList
  /\ \E f \in SchemaFields("Post") : f.typeIdentifier = "Enum" /\ f.isRequired

\* every bundle is built and no relation has been wired yet
Unwired == pc = "build" \/ (pc = "inject" /\ idx = 1)

Identifiers == CaseIdentifiers \cup ListedIdentifiers \cup {"User", "Post", "Comment"}

Probe(ti) ==
  [fieldName |-> S_key, typeIdentifier |-> ti, isList |-> FALSE, isRequired |-> FALSE,
   enumValues |-> <<"ADMIN">>]

ParsedNow(ti) ==
  parseClientType(Probe(ti), "User", [enumTypes |-> enumTypes, next |-> nextInstance]).type

EnumFields(m) == {f \in SchemaFields(m) : f.typeIdentifier = "Enum"}

\* C8 as amended: within one createTypes call every use of an Enum field's type
\* (object type field, create, update and filter arguments) is the one
\* instance cached under modelName_fieldName; a later createTypes call on the
\* same input allocates its own instance for that key.
C8_OneInstancePerBuild ==
  /\ \A m \in Built : \A f \in EnumFields(m) :
       /\ EnumKey(m, f) \in DOMAIN enumTypes
       /\ Strip(ObjType(m, f)) = enumTypes[EnumKey(m, f)]
       /\ Strip(UpdateArgs(m)[f.fieldName].type) = enumTypes[EnumKey(m, f)]
       /\ Strip(FilterFields(m)[f.fieldName].type) = enumTypes[EnumKey(m, f)]
       /\ Strip(CreateArgs(m)[f.fieldName].type) = enumTypes[EnumKey(m, f)]
  /\ \A m \in Built \cap DOMAIN prevTypes : \A f \in EnumFields(m) :
       LET before == Strip(prevTypes[m].objectType.fields[f.fieldName].type)
       IN /\ before.name = Strip(ObjType(m, f)).name
          /\ before.inst # Strip(ObjType(m, f)).inst

\* C8 as stated: repeated createTypes calls on identical input resolve an Enum
\* field's key to the identical instance.
C8_SameInstanceAcrossBuilds ==
  \A m \in Built \cap DOMAIN prevTypes : \A f \in EnumFields(m) :
    Strip(prevTypes[m].objectType.fields[f.fieldName].type) = Strip(ObjType(m, f))

C8_Witness ==
  /\ build = 2
  /\ pc = "returned"
  /\ "Post" \in Built
  /\ \E f \in EnumFields("User") : f.isRequired
  /\ EnumFields("Post") # {}

Wired(type) == Strip(type).kind \in {"Object", "Connection"}

AllTargetsInBatch ==
  \A i \in DOMAIN clientSchemas : \A f \in Range(clientSchemas[i].fields) :
    IsRelationField(f) => f.typeIdentifier \in BatchNames

\* C9: the three passes do not interleave (a field is wired only when every
\* entity has its bundle, NonNull is applied only when no placeholder is
\* left); a batch whose relation fields all name entities of the batch never
\* throws, and after the return no field holds a placeholder: a list relation
\* has the target's connection type and filter arguments, a non-list relation
\* the target's object type.
C9_PassesInOrder ==
  /\ (\E m \in Built : \E f \in SchemaFields(m) : Wired(ObjType(m, f)))
       => Built = BatchNames
  /\ (\E m \in Built : \E f \in SchemaFields(m) : ObjType(m, f).kind = "NonNull")
       => \A m \in Built : \A f \in SchemaFields(m) : ~isRelation(ObjType(m, f))
  /\ AllTargetsInBatch => pc # "threw"
  /\ pc = "returned" =>
       /\ Built = BatchNames
       /\ \A m \in Built : \A f \in SchemaFields(m) :
            LET field == clientTypes[m].objectType.fields[f.fieldName]
            IN /\ ~isRelation(Strip(field.type))
               /\ (IsRelationField(f) /\ f.isList) =>
                    /\ Strip(field.type) = clientTypes[f.typeIdentifier].connectionType
                    /\ field.args = clientTypes[f.typeIdentifier].queryFilterInputArguments
               /\ (IsRelationField(f) /\ ~f.isList) =>
                    /\ Strip(field.type) = [kind |-> "Object", name |-> f.typeIdentifier]
                    /\ clientTypes[f.typeIdentifier].objectType.name = f.typeIdentifier

C9_Witness ==
  /\ pc = "returned"
  /\ Len(clientSchemas) = 2
  /\ \E f \in SchemaFields("User") : f.typeIdentifier = "Post" /\ f.isList /\ f.isRequired
  /\ \E f \in SchemaFields("User") : f.typeIdentifier = "User"
  /\ \E f \in SchemaFields("Post") : f.typeIdentifier = "User" /\ f.isRequired
  /\ \E f \in SchemaFields("Post") : f.typeIdentifier = "Post"

(***************************************************************************)
(* Properties of signinUser                                                *)
(***************************************************************************)
UsersWithEmail == SelectSeq(users, LAMBDA u : u.email = sargs.email)

\* the list promise did not reject
ListReturned == soutcome.message # "backend list error"

\* C2: when the backend returns the user list, signinUser ends in one of three
\* ways: no user has the email - rejected with the unknown-email message,
\* nothing compared, no token issued; the comparison resolves false - rejected
\* with the wrong-password message, no token issued; the comparison resolves
\* true - resolved to {token issued for that user, viewer {id}}. A token is
\* issued only after a comparison for the same user record has resolved true.
C2_SigninOutcomes ==
  /\ (spc = "done" /\ ListReturned /\ UsersWithEmail = <<>>) =>
       /\ soutcome = RejectedMessage("no user with the email", sargs.email)
       /\ compareCalls = <<>>
       /\ tokenCalls = <<>>
  /\ (spc = "done" /\ ListReturned /\ UsersWithEmail # <<>>) =>
       /\ Len(compareCalls) = 1
       /\ compareCalls[1].password = sargs.password
       /\ compareCalls[1].hash = UsersWithEmail[1].password
       /\ compareCalls[1].user = UsersWithEmail[1]
       /\ compareCalls[1].result = "false" =>
            /\ soutcome = RejectedMessage("incorrect password for email", sargs.email)
            /\ tokenCalls = <<>>
       /\ compareCalls[1].result = "true" =>
            /\ soutcome = Payload(tokenForUser(UsersWithEmail[1]), UsersWithEmail[1].id)
            /\ tokenCalls = <<UsersWithEmail[1]>>
  /\ \A i \in DOMAIN tokenCalls :
       \E j \in DOMAIN compareCalls :
         compareCalls[j].user = tokenCalls[i] /\ compareCalls[j].result = "true"
  /\ soutcome.state = "fulfilled" => tokenCalls # <<>>

C2_Witness ==
  /\ spc = "done"
  /\ soutcome.state = "fulfilled"
  /\ Len(users) = 2
  /\ users[1].email # sargs.email
  /\ tokenCalls = <<users[2]>>

(***************************************************************************)
(* Properties of the resolvers                                             *)
(***************************************************************************)
\* what a filter asks for, stated from the request alone: every field whose
\* filter value is not null, with the global id of a relation decoded
Wanted(filter) ==
  {[field |-> k,
    value |-> IF k = S_authorId THEN Str(<<fromGlobalId(filter.fields[k]).id>>)
              ELSE filter.fields[k]] :
     k \in {k2 \in DOMAIN filter.fields : filter.fields[k2].t # "null"}}

Matching(filter) ==
  IF ~filter.given THEN nodes
  ELSE SelectRecords(nodes,
         [x \in Range(nodes) |-> \A w \in Wanted(filter) : StrictEq(x[w.field], w.value)])

EdgeNodes(connection) == [i \in DOMAIN connection.edges |-> connection.edges[i].node]

\* C3: a list relation whose backend call returns N records, of which M match
\* the filter, resolves to a connection with totalCount M whose edges, when no
\* pagination argument is given, are the M matching records in their original
\* order; without a filter, all N records.
C3_FilteredConnection ==
  (rargs.call = "relation" /\ rargs.outcome = "list") =>
    /\ resolved.state = "fulfilled"
    /\ resolved.t = "connection"
    /\ resolved.totalCount = Len(Matching(rargs.args.filter))
    /\ rargs.args.first.t = "undefined" =>
         EdgeNodes(resolved) = Matching(rargs.args.filter)
    /\ ~rargs.args.filter.given =>
         /\ resolved.totalCount = Len(nodes)
         /\ rargs.args.first.t = "undefined" => EdgeNodes(resolved) = nodes

C3_Witness ==
  /\ rargs.call = "relation"
  /\ rargs.outcome = "list"
  /\ rargs.args.first.t = "undefined"
  /\ rargs.args.filter.given
  /\ rargs.args.filter.fields[S_n] = Num(0)
  /\ rargs.args.filter.fields[S_authorId].t = "string"
  /\ Len(nodes) = 2
  /\ resolved.totalCount = 1
  /\ EdgeNodes(resolved) = <<nodes[2]>>

ScalarFieldNames ==
  {f.fieldName : f \in {g \in Range(PostSchema.fields) : isScalar(g.typeIdentifier)}}

\* a <= b: strings case-insensitively and lexicographically, numbers numerically
Leq(a, b) ==
  IF a.t = "string" THEN localeCompare(toLowerCase(a.s), toLowerCase(b.s)) <= 0
  ELSE a.n <= b.n

ResultNodes == IF resolved.t = "connection" THEN EdgeNodes(resolved) ELSE resolved.items

\* C4: for every scalar field name f, whatever it contains, the root query with
\* orderBy = f_ASC returns records non-decreasing by f and with orderBy = f_DESC
\* non-increasing by f.
C4_SortedByNamedField ==
  (rargs.call = "allNodes" /\ rargs.outcome = "list") =>
    \A f \in ScalarFieldNames :
      /\ rargs.args.orderBy = Str(f \o S_ASC) =>
           \A i \in 1..(Len(ResultNodes) - 1) : Leq(ResultNodes[i][f], ResultNodes[i + 1][f])
      /\ rargs.args.orderBy = Str(f \o S_DESC) =>
           \A i \in 1..(Len(ResultNodes) - 1) : Leq(ResultNodes[i + 1][f], ResultNodes[i][f])

\* C5: in SIMPLE mode the root query returns the records at indices
\* skip .. skip+take-1 that exist, for every skip >= 0 and supplied take >= 0;
\* an omitted skip is 0, an omitted take means all records from skip on.
C5_SkipTakeSlice ==
  (rargs.call = "allNodes" /\ rargs.outcome = "list" /\ schemaType = "SIMPLE"
   /\ ~rargs.args.filter.given /\ rargs.args.orderBy.t = "undefined") =>
    LET skip == IF rargs.args.skip.t = "undefined" THEN 0 ELSE rargs.args.skip.n
        last == IF rargs.args.take.t = "undefined" THEN Len(nodes)
                ELSE IF skip + rargs.args.take.n < Len(nodes)
                     THEN skip + rargs.args.take.n ELSE Len(nodes)
    IN resolved.state = "fulfilled" /\ resolved.items = SubSeq(nodes, skip + 1, last)

====
